---- MODULE Spec2Model ----
(***************************************************************************)
(* Model of baseball_dashboard.py: the BaseballDashboard class (one table  *)
(* self.df loaded at construction, three input widgets, one callback       *)
(* update_dashboard that derives six panels) and generate_sample_data.     *)
(*                                                                         *)
(* Numbers.  Rate statistics (AVG, OBP, SLUG, OPS, BABIP) are kept in      *)
(* thousandths, as the three-decimal values of the data are (0.300 is      *)
(* 300); counting statistics and seasons are integers.  A quotient is the  *)
(* pair <<numerator, denominator>>; a mean is <<sum, count>> with count 0  *)
(* for the NaN mean of no values.  A missing cell is NaN.                  *)
(***************************************************************************)
EXTENDS Integers, Sequences, FiniteSets, TLC

\* Largest number of rows of a loaded table.
MaxRows == 2

\* Thousandths per unit of a rate statistic.
Scale == 1000

\* The missing-cell marker (float NaN); no real cell holds this value.
NaN == 0 - 999999

\* A cleared dropdown (value None); a selection v is the tuple <<v>>.
None == <<>>

--------------------------------------------------------------------------
(* The table *)

\* Columns of the data file, in file order: the twelve columns the dashboard
\* reads by name.
ColumnOrder ==
    <<"Player", "Season", "AVG", "OBP", "SLUG", "OPS", "BABIP",
      "HR", "2B", "3B", "RBI", "SB">>

Columns == {ColumnOrder[i] : i \in DOMAIN ColumnOrder}

RateStats == {"AVG", "OBP", "SLUG", "OPS", "BABIP"}

Players == {"A", "B"}

Seasons == {2021, 2022}

\* Statistic lines a row of the file may carry.  Line 1 is an ordinary
\* season with OPS = OBP + SLUG; line 2 has values above every radar
\* divisor, an OPS that is not OBP + SLUG, a zero, a missing cell and a
\* negative cell (read_csv takes any number).
Profiles ==
    <<[AVG |-> 300, OBP |-> 350, SLUG |-> 500, OPS |-> 850, BABIP |-> 310,
       HR |-> 30, 2B |-> 25, 3B |-> 2, RBI |-> 90, SB |-> 10],
      [AVG |-> 410, OBP |-> 450, SLUG |-> 650, OPS |-> 1000, BABIP |-> 420,
       HR |-> 60, 2B |-> NaN, 3B |-> 0, RBI |-> 130, SB |-> -2]>>

\* The column sets a file may lack: none, Player, Season, one statistic of
\* each use the panels make of them, the three trend columns, the three
\* power columns.
MissingChoices ==
    {{}, {"Player"}, {"Season"}, {"OPS"}, {"HR"}, {"2B"},
     {"AVG", "OBP", "SLUG"}, {"HR", "2B", "3B"}}

MkRow(p, s, k, cols) ==
    [c \in cols |-> IF c = "Player" THEN p
                    ELSE IF c = "Season" THEN s
                    ELSE Profiles[k][c]]

\* Row descriptions <<player, season, profile>> of a file of n rows, one
\* row per player and season, in any order.
RowKeys(n) ==
    {f \in [1..n -> Players \X Seasons \X DOMAIN Profiles] :
        \A i, j \in 1..n : i # j => <<f[i][1], f[i][2]>> # <<f[j][1], f[j][2]>>}

\* read_csv: the columns present, the rows, and the columns of float dtype (a
\* column with a decimal point or with a missing cell; the others are int64,
\* Player is object).
MkTable(f, missing) ==
    LET cols == Columns \ missing
        rows == [i \in DOMAIN f |-> MkRow(f[i][1], f[i][2], f[i][3], cols)]
    IN [cols   |-> cols,
        rows   |-> rows,
        floats |-> {c \in cols \ {"Player"} :
                       c \in RateStats \/ \E i \in DOMAIN rows : rows[i][c] = NaN}]

\* The files pd.read_csv may load: at least one row (with no row the slider
\* bounds of setup_layout are NaN and the constructor raises).
CsvTables ==
    {MkTable(f, m) : f \in UNION {RowKeys(n) : n \in 1..MaxRows}, m \in MissingChoices}

--------------------------------------------------------------------------
(* Helpers for columns and numbers *)

RECURSIVE SumSeq(_)
SumSeq(s) == IF s = <<>> THEN 0 ELSE Head(s) + SumSeq(Tail(s))

RECURSIVE MinSeq(_)
MinSeq(s) == IF Len(s) = 1 THEN s[1]
             ELSE LET m == MinSeq(Tail(s)) IN IF s[1] <= m THEN s[1] ELSE m

RECURSIVE MaxSeq(_)
MaxSeq(s) == IF Len(s) = 1 THEN s[1]
             ELSE LET m == MaxSeq(Tail(s)) IN IF s[1] >= m THEN s[1] ELSE m

\* df[c]: the cells of column c, in row order.
Col(rows, c) == [i \in DOMAIN rows |-> rows[i][c]]

NotNa(s) == SelectSeq(s, LAMBDA v : v # NaN)

\* Series.mean(): the mean of the cells that are not NaN.
Mean(s) == <<SumSeq(NotNa(s)), Len(NotNa(s))>>

\* sorted(...) of a set of player names
PlayerOrder == <<"A", "B", "Mike Trout", "Mookie Betts">>

--------------------------------------------------------------------------
(* setup_layout: the widgets and their initial values *)

\* options of player-dropdown: the sorted distinct players, or the sorted
\* row index when the table has no Player column.
KnownPlayers(t) == PlayerOrder

PlayerOptions(t) ==
    IF "Player" \in t.cols
    THEN SelectSeq(PlayerOrder, LAMBDA p : \E i \in DOMAIN t.rows : t.rows[i]["Player"] = p)
    ELSE [i \in DOMAIN t.rows |-> i - 1]

InitialPlayer(t) ==
    IF PlayerOptions(t) # <<>> THEN <<PlayerOptions(t)[1]>> ELSE None

\* options of stats-dropdown, and its initial value
StatsOptions == {"OBP", "AVG", "BABIP", "SLUG", "OPS", "2B", "HR", "RBI", "SB"}

InitialStats == <<"OBP", "AVG", "SLUG">>

SliderMin(t) == IF "Season" \in t.cols THEN MinSeq(Col(t.rows, "Season")) ELSE 2020

\* the end the slider's marks are built with: range(2020, 2024)
SliderMarksEnd(t) == IF "Season" \in t.cols THEN MaxSeq(Col(t.rows, "Season")) ELSE 2024

SliderMax(t) == IF "Season" \in t.cols THEN MaxSeq(Col(t.rows, "Season")) ELSE 2023

InitialSeasonRange(t) == <<SliderMin(t), SliderMax(t)>>

--------------------------------------------------------------------------
(* update_dashboard: the two filters *)

ExclusiveSeasonFilter(t, range) ==
    IF "Season" \in t.cols
    THEN [t EXCEPT !.rows = SelectSeq(t.rows, LAMBDA r :
                                 r["Season"] >= range[1] /\ r["Season"] < range[2])]
    ELSE t

SeasonFilter(t, range) ==
    IF "Season" \in t.cols
    THEN [t EXCEPT !.rows = SelectSeq(t.rows, LAMBDA r :
                                 r["Season"] >= range[1] /\ r["Season"] <= range[2])]
    ELSE t

PlayerFilter(t, player) ==
    IF "Player" \in t.cols
    THEN [t EXCEPT !.rows = SelectSeq(t.rows, LAMBDA r : <<r["Player"]>> = player)]
    ELSE t

--------------------------------------------------------------------------
(* The panels.  A panel is [raised, kind, data]: raised names the exception *)
(* the function raises ("" when it returns), kind the form of the figure.  *)

Returned(kind, data) == [raised |-> "", kind |-> kind, data |-> data]

Raised(error) == [raised |-> error, kind |-> "none", data |-> <<>>]

OverviewStats == <<"AVG", "OBP", "SLUG", "OPS", "HR", "RBI">>

\* isinstance(value, float): a cell of a float column, or any numeric cell
\* of a row Series that has no object cell and so one common float dtype.
IsFloat(t, stat) ==
    stat \in t.floats \/ ("Player" \notin t.cols /\ t.floats # {})

\* value < 10, for a cell kept in thousandths or in units
Below10(stat, v) == IF stat \in RateStats THEN v < 10 * Scale ELSE v < 10

\* int(value)
IntOf(stat, v) == IF stat \in RateStats THEN v \div Scale ELSE v

\* f"{value:.3f}" if isinstance(value, float) and value < 10 else str(int(value))
FormatValue(t, stat, v) ==
    IF IsFloat(t, stat) /\ v # NaN /\ Below10(stat, v)
    THEN <<"%.3f", v>>
    ELSE <<"int", IntOf(stat, v)>>

create_stats_overview(player_data, player_name) ==
    IF player_data.rows = <<>>
    THEN Returned("placeholder", <<"No data available for selected filters">>)
    ELSE LET latest_stats == player_data.rows[Len(player_data.rows)]
             shown == SelectSeq(OverviewStats, LAMBDA s : s \in DOMAIN latest_stats)
         IN IF \E i \in DOMAIN shown : latest_stats[shown[i]] = NaN
            THEN Raised("ValueError")
            ELSE Returned("cards",
                     [name  |-> player_name,
                      cards |-> [i \in DOMAIN shown |->
                                   <<shown[i]>> \o FormatValue(player_data, shown[i],
                                                               latest_stats[shown[i]])]])

PerSeasonFromOneRow(player_data) ==
    "Season" \in player_data.cols /\ Len(player_data.rows) > 0

\* the test both charts branch on:
\* 'Season' in player_data.columns and len(player_data) > 1
PerSeason(player_data) ==
    "Season" \in player_data.cols /\ Len(player_data.rows) > 1

TrendStats == <<"AVG", "OBP", "SLUG">>

create_batting_trend(player_data) ==
    IF PerSeason(player_data)
    THEN LET drawn == SelectSeq(TrendStats, LAMBDA s : s \in player_data.cols)
         IN Returned("lines",
                [i \in DOMAIN drawn |->
                    [name |-> drawn[i],
                     x    |-> Col(player_data.rows, "Season"),
                     y    |-> Col(player_data.rows, drawn[i])]])
    ELSE IF player_data.rows = <<>> /\ \E i \in DOMAIN TrendStats : TrendStats[i] \in player_data.cols
         THEN Raised("IndexError")
         ELSE Returned("bar",
                  [x |-> TrendStats,
                   y |-> [i \in DOMAIN TrendStats |->
                            IF TrendStats[i] \in player_data.cols
                            THEN player_data.rows[1][TrendStats[i]]
                            ELSE 0]])

PowerStats == <<"2B", "3B", "HR">>

\* float addition: NaN if either operand is
AddNa(a, b) == IF a = NaN \/ b = NaN THEN NaN ELSE a + b

\* the loop of create_power_stats over one row: a cell counts if the column
\* is present and pd.notna
RowXbh(row) ==
    SumSeq([i \in DOMAIN PowerStats |->
              IF PowerStats[i] \in DOMAIN row /\ row[PowerStats[i]] # NaN
              THEN row[PowerStats[i]]
              ELSE 0])

\* xbh_val += player_data[c].iloc[0] or 0 for the columns present: "or"
\* replaces only a falsy cell (0), a NaN cell is truthy and is added
RECURSIVE FirstRowXbh(_, _, _)
FirstRowXbh(player_data, i, acc) ==
    IF i > Len(PowerStats) THEN acc
    ELSE FirstRowXbh(player_data, i + 1,
             IF PowerStats[i] \in player_data.cols
             THEN AddNa(acc, player_data.rows[1][PowerStats[i]])
             ELSE acc)

create_power_stats(player_data) ==
    IF PerSeason(player_data)
    THEN Returned("by_season",
             [hr  |-> IF "HR" \in player_data.cols
                      THEN <<[x |-> Col(player_data.rows, "Season"),
                              y |-> Col(player_data.rows, "HR")]>>
                      ELSE <<>>,
              xbh |-> [x |-> Col(player_data.rows, "Season"),
                       y |-> [i \in DOMAIN player_data.rows |-> RowXbh(player_data.rows[i])]]])
    ELSE IF player_data.rows = <<>> /\ \E i \in DOMAIN PowerStats : PowerStats[i] \in player_data.cols
         THEN Raised("IndexError")
         ELSE Returned("single",
                  [hr  |-> IF "HR" \in player_data.cols THEN player_data.rows[1]["HR"] ELSE 0,
                   xbh |-> FirstRowXbh(player_data, 1, 0)])

DefaultRadarStats == <<"AVG", "OBP", "SLUG", "OPS">>

\* min(q, 1.0) of the quotient num / den, den > 0
Min1(num, den) == IF num <= den THEN <<num, den>> ELSE <<1, 1>>

\* the normalisation of create_radar_chart: v / 0.400, v / 1.000 or v / 50,
\* clipped at 1.0 (a rate cell v is in thousandths, so v / 0.400 is v : 400)
NoClipNormalize(stat, v) ==
    IF stat \in {"AVG", "OBP", "SLUG", "BABIP"} THEN <<v, 400>>
    ELSE IF stat = "OPS" THEN <<v, Scale>>
    ELSE <<v, 50>>

Normalize(stat, v) ==
    IF stat \in {"AVG", "OBP", "SLUG", "BABIP"} THEN Min1(v, 400)
    ELSE IF stat = "OPS" THEN Min1(v, Scale)
    ELSE Min1(v, 50)

create_radar_chart(player_data, selected_stats) ==
    IF player_data.rows = <<>>
    THEN Returned("placeholder", <<"No data available">>)
    ELSE LET latest_data == player_data.rows[Len(player_data.rows)]
             radar_stats == IF selected_stats # <<>> THEN selected_stats ELSE DefaultRadarStats
             categories  == SelectSeq(radar_stats, LAMBDA s :
                                s \in DOMAIN latest_data /\ latest_data[s] # NaN)
         IN IF categories # <<>>
            THEN Returned("polar",
                     [r     |-> [i \in DOMAIN categories |->
                                   Normalize(categories[i], latest_data[categories[i]])],
                      theta |-> categories])
            ELSE Returned("placeholder", <<"No valid stats for radar chart">>)

create_comparison_chart(full_df, selected_player, selected_stats) ==
    IF selected_stats = <<>>
    THEN Returned("placeholder", <<"Select stats to compare">>)
    ELSE IF \E i \in DOMAIN selected_stats : selected_stats[i] \notin full_df.cols
         THEN Raised("KeyError")
         ELSE LET player_data == PlayerFilter(full_df, selected_player)
              IN Returned("bars",
                     [x          |-> selected_stats,
                      league_avg |-> [i \in DOMAIN selected_stats |->
                                        Mean(Col(full_df.rows, selected_stats[i]))],
                      player_avg |-> [i \in DOMAIN selected_stats |->
                                        Mean(Col(player_data.rows, selected_stats[i]))]])

\* select_dtypes(include=[np.number]).columns: every column but the object
\* column Player, in file order
NumericColumns(t) == SelectSeq(ColumnOrder, LAMBDA c : c \in t.cols /\ c # "Player")

\* One more row in the sums <<n, Sa, Sb, Saa, Sbb, Sab>> of two columns: a row
\* counts when both cells are present.
AddRow(m, x, y) ==
    IF x = NaN \/ y = NaN THEN m
    ELSE <<m[1] + 1, m[2] + x, m[3] + y, m[4] + x * x, m[5] + y * y, m[6] + x * y>>

\* The sums corr() accumulates for columns a and b in one pass over the rows.
RECURSIVE Moments(_, _, _, _, _)
Moments(rows, a, b, i, m) ==
    IF i > Len(rows) THEN m
    ELSE Moments(rows, a, b, i + 1, AddRow(m, rows[i][a], rows[i][b]))

\* Pearson's r = cov / sqrt(var_a * var_b) from the sums, kept as
\* <<n*Sab - Sa*Sb, n*Saa - Sa*Sa, n*Sbb - Sb*Sb>>, and <<0, 0, 0>> for the
\* NaN of fewer than two rows or of a constant column.
PearsonOf(m) ==
    IF m[1] < 2 \/ m[1] * m[4] - m[2] * m[2] = 0 \/ m[1] * m[5] - m[3] * m[3] = 0
    THEN <<0, 0, 0>>
    ELSE <<m[1] * m[6] - m[2] * m[3], m[1] * m[4] - m[2] * m[2], m[1] * m[5] - m[3] * m[3]>>

\* DataFrame.corr() for one pair of columns (NaN at once for fewer than two
\* rows, where the sums cannot hold two).
Pearson(rows, a, b) ==
    IF Len(rows) < 2 THEN <<0, 0, 0>>
    ELSE PearsonOf(Moments(rows, a, b, 1, <<0, 0, 0, 0, 0, 0>>))

\* The entry of (b, a), given that of (a, b).
Mirror(e) == <<e[1], e[3], e[2]>>

\* Row i of the entries on and above the diagonal, from column j on.
RECURSIVE UpperRow(_, _, _, _)
UpperRow(rows, numeric_columns, i, j) ==
    IF j > Len(numeric_columns) THEN <<>>
    ELSE <<Pearson(rows, numeric_columns[i], numeric_columns[j])>>
         \o UpperRow(rows, numeric_columns, i, j + 1)

RECURSIVE Upper(_, _, _)
Upper(rows, numeric_columns, i) ==
    IF i > Len(numeric_columns) THEN <<>>
    ELSE <<UpperRow(rows, numeric_columns, i, i)>> \o Upper(rows, numeric_columns, i + 1)

\* The matrix, given the entries on and above the diagonal: corr() computes
\* the entry of (a, b) once and stores it at (b, a) too.
CorrMatrix(numeric_columns, upper) ==
    [i \in DOMAIN numeric_columns |-> [j \in DOMAIN numeric_columns |->
        IF i <= j THEN upper[i][j - i + 1] ELSE Mirror(upper[j][i - j + 1])]]

\* player_data[numeric_columns].corr()
Corr(rows, numeric_columns) ==
    CorrMatrix(numeric_columns, Upper(rows, numeric_columns, 1))

create_correlation_heatmap(player_data) ==
    Returned("heatmap",
        [labels |-> NumericColumns(player_data),
         z      |-> Corr(player_data.rows, NumericColumns(player_data))])

--------------------------------------------------------------------------
(* update_dashboard *)

PanelNames == <<"overview", "trend", "power", "radar", "comparison", "heatmap">>

\* The rows the comparison chart is given as full_df (line 311).
WholeTable(table, filtered_df) == table

ComparisonFrame(table, filtered_df) == filtered_df

\* The rows the heatmap is given (line 312).
AllPlayersFrame(filtered_df, player_data) == filtered_df

HeatmapFrame(filtered_df, player_data) == player_data

\* The return statement: the six outputs, or the exception of the first
\* panel function that raised.
Return(filtered_df, player_data, panels, failed) ==
    [filtered_df |-> filtered_df,
     player_data |-> player_data,
     out |-> IF failed = <<>>
             THEN [status |-> "returned", raised |-> "", at |-> "", panels |-> panels]
             ELSE [status |-> "raised", raised |-> panels[failed[1]].raised,
                   at |-> failed[1], panels |-> <<>>]]

FirstRaise(filtered_df, player_data, panels) ==
    Return(filtered_df, player_data, panels,
           SelectSeq(PanelNames, LAMBDA n : panels[n].raised # ""))

\* Lines 307-312: the six panel functions, called in this order.
Panels(table, filtered_df, player_data, selected_player, selected_stats) ==
    FirstRaise(filtered_df, player_data,
        [overview   |-> create_stats_overview(player_data, selected_player),
         trend      |-> create_batting_trend(player_data),
         power      |-> create_power_stats(player_data),
         radar      |-> create_radar_chart(player_data, selected_stats),
         comparison |-> create_comparison_chart(ComparisonFrame(table, filtered_df),
                                                selected_player, selected_stats),
         heatmap    |-> create_correlation_heatmap(HeatmapFrame(filtered_df, player_data))])

Filtered(table, filtered_df, selected_player, selected_stats) ==
    Panels(table, filtered_df, PlayerFilter(filtered_df, selected_player),
           selected_player, selected_stats)

\* The call of update_dashboard on table self.df: its two locals and what it
\* gives back, either the six outputs or the first exception of a panel.
update_dashboard(table, selected_player_, selected_stats_, season_range_) ==
    Filtered(table, SeasonFilter(table, season_range_), selected_player_, selected_stats_)

--------------------------------------------------------------------------
(* The program *)

VARIABLES
    csv_file,         \* the data file given to the constructor
    df,               \* self.df
    layout,           \* the widgets setup_layout built: options and slider bounds
    selected_player,  \* value of player-dropdown
    selected_stats,   \* value of stats-dropdown
    season_range,     \* value of season-slider
    filtered_df,      \* update_dashboard's local, as of its last call
    player_data,      \* update_dashboard's local, as of its last call
    out,              \* what the last call of update_dashboard gave back
    pc,               \* where the script is: "generate", "returned", "constructed"
    data,             \* generate_sample_data's list of rows while it runs
    sample_data       \* the frame generate_sample_data returned

vars == <<csv_file, df, layout, selected_player, selected_stats, season_range,
          filtered_df, player_data, out, pc, data, sample_data>>

NoFrame == [cols |-> {}, rows |-> <<>>, floats |-> {}]

NoOutput == [status |-> "none", raised |-> "", at |-> "", panels |-> <<>>]

\* Values the user may give the multi-select stats-dropdown.
StatSelections ==
    {<<>>, InitialStats, <<"OPS", "HR", "2B">>, <<"BABIP", "RBI", "SB">>}

setup_layout(t) ==
    [players |-> PlayerOptions(t), min |-> SliderMin(t), max |-> SliderMax(t)]

\* self.df once a call of update_dashboard is over: the call filters a copy
\* (self.df.copy(), then boolean indexing that builds new frames) and never
\* assigns to self.df.
InPlaceFilter(table, season_range_) == SeasonFilter(table, season_range_)

DfAfterUpdate(table, season_range_) == table

\* BaseballDashboard(csv_file_path): read_csv, setup_layout, setup_callbacks.
\* The widgets hold their initial values; no callback has run yet.
Init ==
    /\ csv_file \in CsvTables
    /\ df = csv_file
    /\ layout = setup_layout(df)
    /\ selected_player = InitialPlayer(df)
    /\ selected_stats = InitialStats
    /\ season_range = InitialSeasonRange(df)
    /\ filtered_df = NoFrame
    /\ player_data = NoFrame
    /\ out = NoOutput
    /\ pc = "constructed"
    /\ data = <<>>
    /\ sample_data = NoFrame

\* Dash runs the callback once with the three Input values.
Called(p, stats, range, call) ==
    /\ selected_player' = p
    /\ selected_stats' = stats
    /\ season_range' = range
    /\ filtered_df' = call.filtered_df
    /\ player_data' = call.player_data
    /\ out' = call.out
    /\ df' = DfAfterUpdate(df, range)
    /\ UNCHANGED <<csv_file, layout, pc, data, sample_data>>

Callback(p, stats, range) == Called(p, stats, range, update_dashboard(df, p, stats, range))

\* The page is opened (or reloaded): the widgets show their initial values
\* and the callback fires for the first time.
PageLoad ==
    /\ pc = "constructed"
    /\ Callback(IF layout.players # <<>> THEN <<layout.players[1]>> ELSE None,
                InitialStats, <<layout.min, layout.max>>)

ChangePlayer ==
    /\ out.status # "none"
    /\ \E p \in {<<layout.players[i]>> : i \in DOMAIN layout.players} \cup {None} :
          /\ p # selected_player
          /\ Callback(p, selected_stats, season_range)

ChangeStats ==
    /\ out.status # "none"
    /\ \E stats \in StatSelections :
          /\ stats # selected_stats
          /\ Callback(selected_player, stats, season_range)

ChangeSeason ==
    /\ out.status # "none"
    /\ \E lo \in layout.min..layout.max, hi \in layout.min..layout.max :
          /\ lo <= hi
          /\ <<lo, hi>> # season_range
          /\ Callback(selected_player, selected_stats, <<lo, hi>>)

Next == PageLoad \/ ChangePlayer \/ ChangeStats \/ ChangeSeason

Spec == Init /\ [][Next]_vars

--------------------------------------------------------------------------
(* generate_sample_data and the script that serves its data *)

\* The first players and seasons of the generator's lists.
GenPlayers == <<"Mike Trout", "Mookie Betts">>

GenSeasons == <<2021, 2022>>

\* Outcomes of the random draws: both ends of the interval for OBP, SLUG and
\* OPS, the lower end for the other columns.
Draws(stat) ==
    IF stat = "OBP" THEN {300, 450}
    ELSE IF stat = "SLUG" THEN {400, 650}
    ELSE {700, 1100}

LowEnd(stat) ==
    IF stat \in {"AVG", "BABIP"} THEN 250
    ELSE IF stat = "HR" THEN 15
    ELSE IF stat = "2B" THEN 20
    ELSE IF stat = "RBI" THEN 60
    ELSE 0

\* df['OPS'] = df['OBP'] + df['SLUG'], for one row
KeepDrawnOps(row) == row

RecalculateOps(row) == [row EXCEPT !["OPS"] = row["OBP"] + row["SLUG"]]

\* The script starts: generate_sample_data is entered, no dashboard exists.
NoLayout == [players |-> <<>>, min |-> 0, max |-> 0]

InitSample ==
    /\ pc = "generate"
    /\ data = <<>>
    /\ sample_data = NoFrame
    /\ csv_file = NoFrame
    /\ df = NoFrame
    /\ layout = NoLayout
    /\ selected_player = None
    /\ selected_stats = <<>>
    /\ season_range = <<0, 0>>
    /\ filtered_df = NoFrame
    /\ player_data = NoFrame
    /\ out = NoOutput

\* One pass of the inner loop: data.append({...}) for the next player and
\* season, every statistic drawn at random.
GenAppend ==
    /\ pc = "generate"
    /\ Len(data) < Len(GenPlayers) * Len(GenSeasons)
    /\ \E obp \in Draws("OBP"), slug \in Draws("SLUG"), ops \in Draws("OPS") :
          data' = Append(data,
              [c \in Columns |->
                 IF c = "Player" THEN GenPlayers[(Len(data) \div Len(GenSeasons)) + 1]
                 ELSE IF c = "Season" THEN GenSeasons[(Len(data) % Len(GenSeasons)) + 1]
                 ELSE IF c = "OBP" THEN obp
                 ELSE IF c = "SLUG" THEN slug
                 ELSE IF c = "OPS" THEN ops
                 ELSE LowEnd(c)])
    /\ UNCHANGED <<csv_file, df, layout, selected_player, selected_stats, season_range,
                   filtered_df, player_data, out, pc, sample_data>>

\* After the loops: pd.DataFrame(data), the OPS column recalculated, return.
GenReturn ==
    /\ pc = "generate"
    /\ Len(data) = Len(GenPlayers) * Len(GenSeasons)
    /\ sample_data' = [cols   |-> Columns,
                       rows   |-> [i \in DOMAIN data |-> RecalculateOps(data[i])],
                       floats |-> RateStats]
    /\ data' = <<>>
    /\ pc' = "returned"
    /\ UNCHANGED <<csv_file, df, layout, selected_player, selected_stats, season_range,
                   filtered_df, player_data, out>>

\* BaseballDashboard(path) on a file holding table t.
Construct(t) ==
    /\ csv_file' = t
    /\ df' = t
    /\ layout' = setup_layout(t)
    /\ selected_player' = InitialPlayer(t)
    /\ selected_stats' = InitialStats
    /\ season_range' = InitialSeasonRange(t)
    /\ pc' = "constructed"
    /\ UNCHANGED <<filtered_df, player_data, out, data, sample_data>>

\* Option 2 of the script: sample_data.to_csv(...), then the dashboard on it.
ConstructOnSample ==
    /\ pc = "returned"
    /\ Construct(sample_data)

\* Option 1 of the script: the dashboard on the user's own file.
ConstructOnOwnFile ==
    /\ pc = "generate"
    /\ data = <<>>
    /\ \E t \in CsvTables : Construct(t)

NextSample == GenAppend \/ GenReturn \/ ConstructOnSample \/ ConstructOnOwnFile \/ PageLoad

SpecSample == InitSample /\ [][NextSample]_vars

--------------------------------------------------------------------------
(* Properties *)

Called_ == out.status # "none"

Panel(name) == out.panels[name]

\* The rows of the table a claim calls the player's rows: Season within the
\* selected range (both bounds included) and Player the selected player;
\* a column the table lacks puts no condition.
InSeasonRange(r) ==
    "Season" \in DOMAIN r => (season_range[1] <= r["Season"] /\ r["Season"] <= season_range[2])

OfPlayer(r) == "Player" \in DOMAIN r => <<r["Player"]>> = selected_player

Matching(r) == InSeasonRange(r) /\ OfPlayer(r)

MatchingRows == SelectSeq(df.rows, Matching)

\* C1: for a table with Season and Player columns, the player rows
\* update_dashboard derives are exactly the table rows with
\* lo <= Season <= hi and Player = p: every derived row is such a row of the
\* table, every such row of the table is derived, and none twice.
C1_PlayerRowsExact ==
    (Called_ /\ {"Season", "Player"} \subseteq df.cols) =>
        /\ \A i \in DOMAIN player_data.rows :
              /\ Matching(player_data.rows[i])
              /\ \E k \in DOMAIN df.rows : df.rows[k] = player_data.rows[i]
        /\ \A k \in DOMAIN df.rows :
              Matching(df.rows[k]) =>
                  \E i \in DOMAIN player_data.rows : player_data.rows[i] = df.rows[k]
        /\ Len(player_data.rows) = Cardinality({k \in DOMAIN df.rows : Matching(df.rows[k])})
        /\ player_data.cols = df.cols

\* A call that kept a row on a bound of the range and left out a row of the
\* player for its season.
C1_Witness ==
    /\ Called_
    /\ {"Season", "Player"} \subseteq df.cols
    /\ \E i \in DOMAIN player_data.rows :
          player_data.rows[i]["Season"] = season_range[2]
    /\ \E k \in DOMAIN df.rows :
          /\ <<df.rows[k]["Player"]>> = selected_player
          /\ df.rows[k]["Season"] < season_range[1]

\* C2: when the selection matches no row, update_dashboard does not raise:
\* it returns six outputs and the panels show a placeholder.
C2_EmptyShowsPlaceholder ==
    (Called_ /\ player_data.rows = <<>>) =>
        /\ out.status = "returned"
        /\ Panel("overview").kind = "placeholder"
        /\ Panel("radar").kind = "placeholder"

\* C3: for a table that lacks columns, update_dashboard completes without
\* raising, whatever the widgets hold (stated for the calls with player rows,
\* where the empty-selection failure of C2 plays no part).
C3_MissingColumnsNoRaise ==
    (Called_ /\ df.cols # Columns /\ player_data.rows # <<>>) => out.status = "returned"

\* C4: self.df is never mutated: it holds the rows, columns and values
\* read from the file, after any sequence of calls.
C4_TableImmutable == df = csv_file

\* Several calls have run and the last one filtered rows out.
C4_Witness ==
    /\ Called_
    /\ selected_stats # InitialStats
    /\ out.status = "returned"
    /\ Len(filtered_df.rows) < Len(df.rows)
    /\ df = csv_file

\* The row the radar chart reads: the last of the player's rows.
LatestRow == player_data.rows[Len(player_data.rows)]

\* The divisor the claim fixes for a statistic, in the unit of its cells:
\* 0.400 for AVG, OBP, SLUG and BABIP, 1.000 for OPS, 50 for the others.
ClaimedDivisor(stat) ==
    IF stat \in {"AVG", "OBP", "SLUG", "BABIP"} THEN (4 * Scale) \div 10
    ELSE IF stat = "OPS" THEN Scale
    ELSE 50

\* the quotient q is min(v / d, 1)
IsMinOfQuotientAndOne(q, v, d) ==
    /\ q[2] > 0
    /\ IF v <= d THEN q[1] * d = v * q[2] ELSE q[1] = q[2]

\* C5: each value the radar chart plots is min(v / d, 1.0) for the value v of
\* its statistic and the divisor d the statistic fixes, and none exceeds 1.0.
C5_RadarNormalized ==
    (out.status = "returned" /\ Panel("radar").kind = "polar") =>
        LET r == Panel("radar").data.r
            theta == Panel("radar").data.theta
        IN /\ Len(r) = Len(theta)
           /\ \A i \in DOMAIN theta :
                 /\ IsMinOfQuotientAndOne(r[i], LatestRow[theta[i]], ClaimedDivisor(theta[i]))
                 /\ r[i][1] <= r[i][2]

\* A radar chart with a rate value and a counting value above their divisors
\* and a value below its divisor.
C5_Witness ==
    /\ out.status = "returned"
    /\ Panel("radar").kind = "polar"
    /\ LET theta == Panel("radar").data.theta
       IN /\ \E i \in DOMAIN theta :
                theta[i] \in RateStats /\ LatestRow[theta[i]] > ClaimedDivisor(theta[i])
          /\ \E i \in DOMAIN theta :
                theta[i] \notin RateStats /\ LatestRow[theta[i]] > ClaimedDivisor(theta[i])
          /\ \E i \in DOMAIN theta : LatestRow[theta[i]] < ClaimedDivisor(theta[i])

\* The arithmetic mean of column stat over rows, as <<sum, count>> of its
\* cells that hold a value.
MeanOver(rows, stat) ==
    <<SumSeq([i \in DOMAIN rows |-> IF rows[i][stat] = NaN THEN 0 ELSE rows[i][stat]]),
      Cardinality({i \in DOMAIN rows : rows[i][stat] # NaN})>>

\* C6: the 'Player Average' of each selected statistic is the mean of its
\* column over the rows within the season range and of the selected player,
\* the rows the other panels use.
C6_PlayerAverage ==
    (out.status = "returned" /\ Panel("comparison").kind = "bars") =>
        LET bars == Panel("comparison").data
        IN /\ player_data.rows = MatchingRows
           /\ \A i \in DOMAIN bars.x :
                 bars.player_avg[i] = MeanOver(MatchingRows, bars.x[i])

\* A comparison chart for a player with a row in the range and a row
\* outside it.
C6_Witness ==
    /\ out.status = "returned"
    /\ Panel("comparison").kind = "bars"
    /\ MatchingRows # <<>>
    /\ \E k \in DOMAIN df.rows : OfPlayer(df.rows[k]) /\ ~InSeasonRange(df.rows[k])
    /\ "Player" \in df.cols

\* C7: the 'League Average' of each selected statistic is the mean of its
\* column over every row of the loaded table, whatever the selected player
\* and season range.
C7_LeagueAverageWholeTable ==
    (out.status = "returned" /\ Panel("comparison").kind = "bars") =>
        LET bars == Panel("comparison").data
        IN \A i \in DOMAIN bars.x : bars.league_avg[i] = MeanOver(df.rows, bars.x[i])

\* Two outputs of update_dashboard are equal.
SamePanel(a, b) == a.kind = b.kind /\ a.data = b.data

SameOutput(a, b) ==
    /\ a.status = b.status
    /\ a.raised = b.raised
    /\ a.at = b.at
    /\ a.status = "returned" => \A i \in DOMAIN PanelNames :
                                   SamePanel(a.panels[PanelNames[i]], b.panels[PanelNames[i]])

C9_HeatmapPearson ==
    out.status = "returned" =>
        LET labels == Panel("heatmap").data.labels
            z == Panel("heatmap").data.z
        IN /\ {labels[i] : i \in DOMAIN labels} = df.cols \ {"Player"}
           /\ Len(labels) = Cardinality(df.cols \ {"Player"})
           /\ DOMAIN z = DOMAIN labels
           /\ \A i \in DOMAIN labels :
                 /\ DOMAIN z[i] = DOMAIN labels
                 /\ \A j \in DOMAIN labels :
                       z[i][j] = Pearson(MatchingRows, labels[i], labels[j])

\* A heatmap of a player's two seasons in which Season correlates with a
\* statistic: an entry that is a number and not NaN.
C9_Witness ==
    /\ out.status = "returned"
    /\ "Player" \in df.cols
    /\ Len(MatchingRows) = 2
    /\ LET labels == Panel("heatmap").data.labels
           z == Panel("heatmap").data.z
       IN \E i, j \in DOMAIN labels :
             labels[i] = "Season" /\ i # j /\ z[i][j][1] # 0

\* C10: every row generate_sample_data returns has OPS = OBP + SLUG; the
\* dashboard checks no such thing: it keeps the table of the file as it is
\* and shows the OPS of the player's latest row as the file has it, equal to
\* OBP + SLUG or not.
C10_OpsOnlyInGenerator ==
    /\ \A i \in DOMAIN sample_data.rows :
          sample_data.rows[i]["OPS"] = sample_data.rows[i]["OBP"] + sample_data.rows[i]["SLUG"]
    /\ pc = "constructed" => df = csv_file
    /\ (out.status = "returned" /\ "OPS" \in df.cols) =>
          /\ Panel("overview").kind = "cards"
          /\ \E i \in DOMAIN csv_file.rows : csv_file.rows[i] = LatestRow
          /\ \E k \in DOMAIN Panel("overview").data.cards :
                Panel("overview").data.cards[k] = <<"OPS", "%.3f", LatestRow["OPS"]>>

\* The dashboard shows a file whose last row has an OPS that is not
\* OBP + SLUG.
C10_Witness ==
    /\ out.status = "returned"
    /\ {"OPS", "OBP", "SLUG"} \subseteq df.cols
    /\ LatestRow["OPS"] # LatestRow["OBP"] + LatestRow["SLUG"]
    /\ \E k \in DOMAIN Panel("overview").data.cards :
          Panel("overview").data.cards[k] = <<"OPS", "%.3f", LatestRow["OPS"]>>

\* What a cell adds to the extra-base hits the claim describes: its value,
\* or 0 when the column is absent or the cell holds no value.
XbhCell(row, c) == IF c \in DOMAIN row /\ row[c] # NaN THEN row[c] ELSE 0

ClaimedXbh(row) == XbhCell(row, "2B") + XbhCell(row, "3B") + XbhCell(row, "HR")

\* C11: the XBH value the power chart plots for a row is 2B + 3B + HR of
\* that row, an absent column or a NaN cell counting 0, both in the chart
\* with one bar per season and in the chart with the single bar of the
\* first row.
C11_XbhIsSumOfExtraBases ==
    out.status = "returned" =>
        /\ Panel("power").kind = "by_season" =>
              LET y == Panel("power").data.xbh.y
              IN /\ Len(y) = Len(player_data.rows)
                 /\ \A i \in DOMAIN y : y[i] = ClaimedXbh(player_data.rows[i])
        /\ Panel("power").kind = "single" =>
              Panel("power").data.xbh = ClaimedXbh(player_data.rows[1])

\* C12: a table without a Season column gives the slider the bounds 2020 and
\* 2023 and the initial value [2020, 2023], and update_dashboard filters no
\* row by season: whatever the slider holds, the season-filtered frame is
\* the whole table.
C12_NoSeasonColumnNoFilter ==
    "Season" \notin df.cols =>
        /\ layout.min = 2020
        /\ layout.max = 2023
        /\ out.status = "none" => season_range = <<2020, 2023>>
        /\ out.status # "none" =>
              /\ filtered_df.cols = df.cols
              /\ filtered_df.rows = df.rows

\* The slider was moved off its initial value on a table of two rows
\* without a Season column, and both rows are still in the filtered frame.
C12_Witness ==
    /\ "Season" \notin df.cols
    /\ out.status # "none"
    /\ season_range # <<2020, 2023>>
    /\ Len(df.rows) = 2
    /\ filtered_df.rows = df.rows

\* C13: from one call's player rows (at least one), the trend and power
\* charts take their form.  With a Season column and more than one row: the
\* trend chart has one trace for each of AVG, OBP, SLUG whose column is
\* present, the power chart an XBH bar series and, with an HR column, an HR
\* bar series, each with one point per row against the row's Season.
\* Otherwise: the trend chart is one bar group AVG, OBP, SLUG and the power
\* chart one HR bar and one XBH bar, read from the first row, with 0 for a
\* statistic whose column is absent.
C13_ChartFormByRowCount ==
    (out.status # "none" /\ player_data.rows # <<>>) =>
        LET rows == player_data.rows
            cols == player_data.cols
            trend == create_batting_trend(player_data)
            power == create_power_stats(player_data)
            PerRow(x, y, c) ==
                /\ Len(x) = Len(rows)
                /\ Len(y) = Len(rows)
                /\ \A j \in DOMAIN rows :
                      x[j] = rows[j]["Season"] /\ (c # "" => y[j] = rows[j][c])
        IN /\ out.status = "returned" =>
                 Panel("trend") = trend /\ Panel("power") = power
           /\ IF "Season" \in cols /\ Len(rows) > 1
              THEN /\ trend.kind = "lines"
                   /\ [i \in DOMAIN trend.data |-> trend.data[i].name]
                         = SelectSeq(<<"AVG", "OBP", "SLUG">>, LAMBDA c : c \in cols)
                   /\ \A i \in DOMAIN trend.data :
                         PerRow(trend.data[i].x, trend.data[i].y, trend.data[i].name)
                   /\ power.kind = "by_season"
                   /\ PerRow(power.data.xbh.x, power.data.xbh.y, "")
                   /\ Len(power.data.hr) = (IF "HR" \in cols THEN 1 ELSE 0)
                   /\ \A i \in DOMAIN power.data.hr :
                         PerRow(power.data.hr[i].x, power.data.hr[i].y, "HR")
              ELSE /\ trend.kind = "bar"
                   /\ trend.data.x = <<"AVG", "OBP", "SLUG">>
                   /\ Len(trend.data.y) = 3
                   /\ \A i \in 1..3 :
                         trend.data.y[i] = (IF trend.data.x[i] \in cols
                                            THEN rows[1][trend.data.x[i]] ELSE 0)
                   /\ power.kind = "single"
                   /\ power.data.hr = (IF "HR" \in cols THEN rows[1]["HR"] ELSE 0)
                   /\ cols \cap {"2B", "3B", "HR"} = {} => power.data.xbh = 0

\* The dashboard returned charts for a player with two seasons in a table
\* without an HR column: three trend traces of two points and XBH bars, no
\* HR bars.
C13_Witness ==
    /\ out.status = "returned"
    /\ "Season" \in player_data.cols
    /\ "HR" \notin player_data.cols
    /\ Len(player_data.rows) = 2
    /\ Panel("trend").kind = "lines"
    /\ Len(Panel("trend").data) = 3
    /\ Panel("power").kind = "by_season"
    /\ Panel("power").data.hr = <<>>

\* C14 as stated: whatever the table holds and whatever statistics are
\* selected, every value the radar chart plots is within [0, 1].
C14_RadarWithinAxis ==
    (out.status = "returned" /\ Panel("radar").kind = "polar") =>
        \A i \in DOMAIN Panel("radar").data.r :
            LET q == Panel("radar").data.r[i]
            IN q[2] > 0 /\ 0 <= q[1] /\ q[1] <= q[2]

\* C14: every value the radar chart plots is at most 1, and it is at least
\* 0 exactly when the cell it is computed from is not negative: the clip is
\* at the top only, a negative cell is plotted below the axis range.
C14_RadarAtMostOne ==
    (out.status = "returned" /\ Panel("radar").kind = "polar") =>
        \A i \in DOMAIN Panel("radar").data.r :
            LET q == Panel("radar").data.r[i]
                v == LatestRow[Panel("radar").data.theta[i]]
            IN /\ q[2] > 0
               /\ q[1] <= q[2]
               /\ v >= 0 <=> q[1] >= 0

\* A radar chart of three statistics, none negative, one clipped to 1 and
\* one below 1.
C14_Witness ==
    /\ out.status = "returned"
    /\ Panel("radar").kind = "polar"
    /\ LET r == Panel("radar").data.r
           theta == Panel("radar").data.theta
       IN /\ Len(r) = 3
          /\ \A i \in DOMAIN r : LatestRow[theta[i]] >= 0
          /\ \E i \in DOMAIN r : r[i] = <<1, 1>> /\ LatestRow[theta[i]] > ClaimedDivisor(theta[i])
          /\ \E i \in DOMAIN r : 0 < r[i][1] /\ r[i][1] < r[i][2]

\* The row a claim calls the player's latest: among the table's rows of the
\* selected player within the season range, the one of the greatest Season.
GreatestSeasonRow ==
    LET i == CHOOSE i \in DOMAIN MatchingRows :
                 \A j \in DOMAIN MatchingRows :
                     MatchingRows[j]["Season"] <= MatchingRows[i]["Season"]
    IN MatchingRows[i]

\* C15: in whatever order the file holds its rows, the cards of the stats
\* overview and the values of the radar chart are those of the selected
\* player's row of the greatest Season within the selected range.
C15_LatestIsGreatestSeason ==
    (out.status = "returned" /\ "Season" \in df.cols /\ MatchingRows # <<>>) =>
        /\ Panel("overview").kind = "cards"
        /\ \A k \in DOMAIN Panel("overview").data.cards :
              LET card == Panel("overview").data.cards[k]
              IN <<card[2], card[3]>> =
                     FormatValue(player_data, card[1], GreatestSeasonRow[card[1]])
        /\ Panel("radar").kind = "polar" =>
              \A i \in DOMAIN Panel("radar").data.theta :
                  LET stat == Panel("radar").data.theta[i]
                  IN /\ GreatestSeasonRow[stat] # NaN
                     /\ IsMinOfQuotientAndOne(Panel("radar").data.r[i],
                                              GreatestSeasonRow[stat], ClaimedDivisor(stat))

\* The initial widget values a claim names: the first player of the table
\* in sorted order and the range from the least to the greatest Season.
FirstSortedPlayer ==
    LET present == {i \in DOMAIN PlayerOrder :
                       \E j \in DOMAIN df.rows : df.rows[j]["Player"] = PlayerOrder[i]}
    IN PlayerOrder[CHOOSE i \in present : \A j \in present : i <= j]

SeasonBounds ==
    LET seasons == {df.rows[j]["Season"] : j \in DOMAIN df.rows}
    IN <<CHOOSE lo \in seasons : \A s \in seasons : lo <= s,
         CHOOSE hi \in seasons : \A s \in seasons : s <= hi>>

WidgetsInitial ==
    /\ "Player" \in df.cols => selected_player = <<FirstSortedPlayer>>
    /\ "Season" \in df.cols => season_range = SeasonBounds

\* C16: the widgets start at the first player in sorted order and the range
\* [least Season, greatest Season]; the first call of update_dashboard is
\* made with these values; and every call made with these values finds at
\* least one player row, so a call that finds none has a player or a range
\* the user changed.
C16_InitialSelectionNonEmpty ==
    /\ [](out.status = "none" => WidgetsInitial)
    /\ []((out.status # "none" /\ WidgetsInitial) => player_data.rows # <<>>)
    /\ [][out.status = "none" => (WidgetsInitial' /\ player_data'.rows # <<>>)]_vars

\* The first call on a file of two players and two seasons: it keeps the
\* one row of the first player and returns.
C16_Witness ==
    /\ out.status = "returned"
    /\ {"Player", "Season"} \subseteq df.cols
    /\ WidgetsInitial
    /\ season_range[1] < season_range[2]
    /\ Len(df.rows) = 2
    /\ Len(player_data.rows) = 1

====
